---- MODULE Spec2Model ----
(***************************************************************************)
(* The per-pool reconciliation loop of ec2spotmanager                      *)
(* (server/ec2spotmanager/tasks.py): check_instance_pool and the helpers   *)
(* it calls, run by celery workers against one pool, a provider (EC2) and  *)
(* a redis cache.                                                          *)
(*                                                                         *)
(* A tick is two steps: the non-blocking acquire of the pool lock          *)
(* (Acquire / AcquireFail) and the body under the lock including the       *)
(* release in the finally clause (Tick).  The provider, the operator and   *)
(* the clock move between steps.  The variable tr is a history variable:   *)
(* it records what the last tick saw and did, and every step of the        *)
(* environment resets it.                                                  *)
(***************************************************************************)
EXTENDS Integers, Sequences, FiniteSets, TLC

VARIABLES pc, lock, pool, config, instances, entries, prov, blacklist, tr

vars == <<pc, lock, pool, config, instances, entries, prov, blacklist, tr>>

(***************************************************************************)
(* Bounds of the model.                                                    *)
(***************************************************************************)
NumWorkers == 2
MaxSlots == 2
MaxTempFail == 2

Workers == 1..NumWorkers
Slots == 1..MaxSlots

(***************************************************************************)
(* Program constants.                                                      *)
(***************************************************************************)
Types == {"c4.large", "c4.xlarge", "c4.2xlarge", "c4.4xlarge"}

CORES_PER_INSTANCE ==
    [t \in Types |->
        CASE t = "c4.large" -> 2
          [] t = "c4.xlarge" -> 4
          [] t = "c4.2xlarge" -> 8
          [] OTHER -> 16]

Regions == {"us-east-1", "us-west-2"}

\* models.INSTANCE_STATE: the state code table (section 6 of the spec).
INSTANCE_STATE ==
    [n \in {"pending", "running", "shutting-down", "terminated",
            "stopping", "stopped", "requested"} |->
        CASE n = "pending" -> 0
          [] n = "running" -> 16
          [] n = "shutting-down" -> 32
          [] n = "terminated" -> 48
          [] n = "stopping" -> 64
          [] n = "stopped" -> 80
          [] OTHER -> 256]

\* models.POOL_STATUS_ENTRY_TYPE: the closed set of entry types.
POOL_STATUS_ENTRY_TYPE ==
    {"price-too-low", "config-error", "unclassified",
     "max-spot-instance-count-exceeded", "temporary-failure"}

\* isCritical as the code sets it where it creates an entry of each type:
\* config-error and unclassified entries are always saved with
\* isCritical = True, the other three with the default False.
IsCriticalType(t) == t \in {"config-error", "unclassified"}

\* state_code & 255
Mask(code) == code % 256

(***************************************************************************)
(* The price cache: "ec2spot:price:<type>" -> {region: {zone: [samples]}}, *)
(* most recent sample first, flattened in the iteration order of the two   *)
(* nested loops of _get_best_region_zone.  Prices are in units that keep   *)
(* the per-core prices and the medians integral.  The cache has no key for  *)
(* c4.4xlarge.                                                             *)
(***************************************************************************)
PricedTypes == {"c4.large", "c4.xlarge", "c4.2xlarge"}

PriceData ==
    [t \in PricedTypes |->
        CASE t = "c4.large" ->
               << [region |-> "us-east-1", zone |-> "us-east-1a", prices |-> <<8, 12>>],
                  [region |-> "us-east-1", zone |-> "us-east-1b", prices |-> <<16, 8>>] >>
          [] t = "c4.xlarge" ->
               << [region |-> "us-east-1", zone |-> "us-east-1a", prices |-> <<16, 8, 16>>],
                  [region |-> "us-west-2", zone |-> "us-west-2a", prices |-> <<8, 8>>] >>
          [] OTHER ->
               << [region |-> "us-east-1", zone |-> "us-east-1a", prices |-> <<24, 16, 24>>],
                  [region |-> "us-west-2", zone |-> "us-west-2a", prices |-> <<16, 16>>] >>]

Zones == {"us-east-1a", "us-east-1b", "us-west-2a"}

(***************************************************************************)
(* Identifiers.  The provider numbers its spot requests; the instance      *)
(* that fulfils request n is instance n.  A local record holds the         *)
(* request id until fulfilment and the instance id afterwards.             *)
(***************************************************************************)
ReqId(k) == <<"sir", k>>
InsId(k) == <<"i", k>>

NoneAge == -1

FreeSlot == [kind |-> "free", rs |-> "-", code |-> 0, upd |-> FALSE,
             type |-> "-", region |-> "-", zone |-> "-"]

\* The provider codes an instance goes through (16 bit; 272 = 0x110 is
\* running with the opaque high byte set).
LiveCodes == {0, 16, 272, 64}

\* The history of a tick: how it ended (exit), what it found when it started
\* (pre, with the types of warning the pool had), how _update_pool_instances ended (upd) and the instances the store
\* held then (afterUpd), the cores it counted as missing, the number of
\* instances it asked create_spot_requests for (spot) and the number of
\* requests it saved (made) of which type, the provider instances it handed
\* to cluster.terminate() (targets), the regions it did so in (calls),
\* whether and how it called _terminate_pool_instances, the instances
\* scale-down selected, the fault the provider answered with, and whether
\* it refused the spot request for want of request numbers.  region and
\* zone are what the selector answered ("-" when it was not asked), log is
\* what _update_pool_instances did with the results of check_spot_requests,
\* in order, updEnt the status entries it left behind, reaped the ids of the
\* records it deleted from instances_left, and deleted the types of status
\* entry the tick ran a delete for.  prev is the exit, the
\* requests and the targets of the tick before when nothing happened in
\* between.
\* termOut is how a call of _terminate_pool_instances ended ("run": to its
\* end, "ret": at an except clause), startErr the error scale-up met
\* ("none" when it met none), sel what a call of the selector on its own
\* returned.
NoPre == [frozen |-> FALSE, bad |-> FALSE, enabled |-> FALSE, due |-> FALSE,
          last_cycled |-> -1, size |-> 0, warned |-> {}]

NoTick == [exit |-> "none", pre |-> NoPre, upd |-> "none", afterUpd |-> <<>>,
           missing |-> 0, spot |-> 0, made |-> 0, type |-> "None",
           targets |-> {}, calls |-> {}, terminate |-> "none",
           selected |-> <<>>, fault |-> "none", refused |-> FALSE,
           region |-> "-", zone |-> "-", log |-> <<>>, updEnt |-> <<>>,
           deleted |-> {}, reaped |-> {}, sel |-> <<>>, termOut |-> "none",
           startErr |-> "none",
           prev |-> [exit |-> "none", made |-> 0, targets |-> {}]]

(***************************************************************************)
(* common.prices.get_price_median: the median of a price series (the mean  *)
(* of the two middle samples of an even series).                           *)
(***************************************************************************)
RECURSIVE Insert(_, _)
Insert(x, s) ==
    IF s = <<>> THEN <<x>>
    ELSE IF x <= Head(s) THEN <<x>> \o s
    ELSE <<Head(s)>> \o Insert(x, Tail(s))

RECURSIVE Sorted(_)
Sorted(s) == IF s = <<>> THEN <<>> ELSE Insert(Head(s), Sorted(Tail(s)))

get_price_median(data) ==
    LET sdata == Sorted(data)
        n == Len(sdata)
    IN  IF n % 2 = 0
        THEN (sdata[n \div 2 + 1] + sdata[n \div 2]) \div 2
        ELSE sdata[n \div 2 + 1]

\* "x = e; F(x)": the statement that follows an assignment, applied to the
\* value assigned.
With(e, F(_)) == CHOOSE r \in {F(x) : x \in {e}} : TRUE

Min(a, b) == IF a < b THEN a ELSE b
Max(a, b) == IF a > b THEN a ELSE b

(***************************************************************************)
(* _get_best_region_zone(config): the cheapest allowed, non-blacklisted    *)
(* (region, zone, type) whose current per-core price is within             *)
(* ec2_max_price, and the rejected zones with their lowest rejected price. *)
(* "None" stands for Python's None; rejected is a function on the zones    *)
(* that have an entry.                                                     *)
(***************************************************************************)
NoBest == [region |-> "None", zone |-> "None", type |-> "None",
           median |-> -1, rejected |-> <<>>]

PerCore(prices, t) ==
    [i \in 1..Len(prices) |-> prices[i] \div CORES_PER_INSTANCE[t]]

\* A step of the selector in which a later triple of equal median replaces
\* the running best.
BestStepLastWins(b, t, e, allowed, max_price, bl) ==
    IF e.region \notin allowed THEN b
    ELSE IF <<e.zone, t>> \in bl THEN b
    ELSE LET prices == PerCore(e.prices, t)
         IN  IF prices[1] > max_price
             THEN [b EXCEPT !.rejected =
                     (e.zone :> Min(IF e.zone \in DOMAIN b.rejected
                                    THEN b.rejected[e.zone] ELSE 9999,
                                    prices[1])) @@ b.rejected]
             ELSE LET median == get_price_median(prices)
                  IN  IF b.median = -1 \/ b.median >= median
                      THEN [b EXCEPT !.median = median, !.zone = e.zone,
                                     !.region = e.region, !.type = t]
                      ELSE b

\* A step of the selector that does not look at the blacklist.
BestStepNoBlacklist(b, t, e, allowed, max_price, bl) ==
    IF e.region \notin allowed THEN b
    ELSE LET prices == PerCore(e.prices, t)
         IN  IF prices[1] > max_price
             THEN [b EXCEPT !.rejected =
                     (e.zone :> Min(IF e.zone \in DOMAIN b.rejected
                                    THEN b.rejected[e.zone] ELSE 9999,
                                    prices[1])) @@ b.rejected]
             ELSE LET median == get_price_median(prices)
                  IN  IF b.median = -1 \/ b.median > median
                      THEN [b EXCEPT !.median = median, !.zone = e.zone,
                                     !.region = e.region, !.type = t]
                      ELSE b


\* One (region, zone) of one instance type: the body of the inner loop.
BestStep(b, t, e, allowed, max_price, bl) ==
    IF e.region \notin allowed THEN b
    ELSE IF <<e.zone, t>> \in bl THEN b
    ELSE LET prices == PerCore(e.prices, t)
         IN  IF prices[1] > max_price
             THEN [b EXCEPT !.rejected =
                     (e.zone :> Min(IF e.zone \in DOMAIN b.rejected
                                    THEN b.rejected[e.zone] ELSE 9999,
                                    prices[1])) @@ b.rejected]
             ELSE LET median == get_price_median(prices)
                  IN  IF b.median = -1 \/ b.median > median
                      THEN [b EXCEPT !.median = median, !.zone = e.zone,
                                     !.region = e.region, !.type = t]
                      ELSE b

RECURSIVE BestOverZones(_, _, _, _, _, _)
BestOverZones(b, t, es, allowed, max_price, bl) ==
    IF es = <<>> THEN b
    ELSE With(BestStep(b, t, Head(es), allowed, max_price, bl),
              LAMBDA b1 : BestOverZones(b1, t, Tail(es), allowed, max_price, bl))

RECURSIVE BestOverTypes(_, _, _, _, _)
BestOverTypes(b, ts, allowed, max_price, bl) ==
    IF ts = <<>> THEN b
    ELSE IF Head(ts) \notin DOMAIN PriceData
    THEN BestOverTypes(b, Tail(ts), allowed, max_price, bl)
    ELSE With(BestOverZones(b, Head(ts), PriceData[Head(ts)], allowed, max_price, bl),
              LAMBDA b1 : BestOverTypes(b1, Tail(ts), allowed, max_price, bl))

_get_best_region_zone(types, cfg, bl) ==
    BestOverTypes(NoBest, types, cfg.ec2_allowed_regions, cfg.ec2_max_price, bl)

(***************************************************************************)
(* The head of _start_pool_instances: the instance types with at most      *)
(* count cores, or those with the fewest cores when there are none.        *)
(***************************************************************************)
acceptable_types(types, count) ==
    SelectSeq(types, LAMBDA t : CORES_PER_INSTANCE[t] <= count)

smallest_size(types) ==
    CHOOSE c \in {CORES_PER_INSTANCE[types[i]] : i \in 1..Len(types)} :
        \A i \in 1..Len(types) : c <= CORES_PER_INSTANCE[types[i]]

\* A fallback that keeps every configured type.
smallestAll(types) == types


smallest(types) ==
    SelectSeq(types, LAMBDA t : CORES_PER_INSTANCE[t] = smallest_size(types))

allowed_types(types, count) ==
    IF acceptable_types(types, count) # <<>>
    THEN acceptable_types(types, count)
    ELSE smallest(types)

(***************************************************************************)
(* Status entries: entries[t] is the number of PoolStatusEntry rows of     *)
(* type t the pool has.                                                    *)
(***************************************************************************)
NoEntries == [t \in POOL_STATUS_ENTRY_TYPE |-> 0]

AddEntry(ent, t) == [ent EXCEPT ![t] = @ + 1]

\* "if not PoolStatusEntry.objects.filter(pool, type): entry.save()"
AddEntryOnce(ent, t) == IF ent[t] > 0 THEN ent ELSE AddEntry(ent, t)

ClearEntries(ent, t) == [ent EXCEPT ![t] = 0]

IsFrozen(ent) == \E t \in POOL_STATUS_ENTRY_TYPE : IsCriticalType(t) /\ ent[t] > 0

\* The except clause that _update_pool_instances and _start_pool_instances
\* share: a boto/ssl/socket error is mapped to an entry by its message.
UpdateBotoError(ent, err) ==
    CASE err = "quota" -> AddEntryOnce(ent, "max-spot-instance-count-exceeded")
      [] err = "unavail" -> AddEntry(ent, "temporary-failure")
      [] OTHER -> AddEntry(ent, "unclassified")

(***************************************************************************)
(* Faults the provider can answer a tick with: at most one per tick.       *)
(*   upd_conn             connect fails in _update_pool_instances          *)
(*   upd_check, upd_find  check_spot_requests / find raises a boto error   *)
(*   upd_taglag           find answers before the Updatable tags that this *)
(*                        call has just added show in its results          *)
(*   term_conn, term_boto connect / find-or-terminate fails in             *)
(*                        _terminate_pool_instances                        *)
(*   start_userdata       UserData.handle_tags yields nothing              *)
(*   start_ssl, start_conn  connect / resolve_image_name raises            *)
(*                        ssl.SSLError / another exception                 *)
(*   start_req            create_spot_requests raises a boto error         *)
(* err is what the message of a boto error says: "quota"                   *)
(* (MaxSpotInstanceCountExceeded), "unavail" (Service Unavailable) or      *)
(* "other"; "tls" and "socket" are an ssl.SSLError and a socket.error,     *)
(* whose messages say neither.  region is the region whose call fails.     *)
(***************************************************************************)
NoFault == [kind |-> "none", err |-> "-", region |-> "-"]

Faults ==
    {NoFault}
    \cup [kind : {"upd_conn", "term_conn", "term_boto"}, err : {"-"}, region : Regions]
    \cup [kind : {"upd_check", "upd_find"}, err : {"quota", "unavail", "other"},
          region : Regions]
    \cup [kind : {"start_userdata", "start_ssl", "start_conn"}, err : {"-"},
          region : {"-"}]
    \cup [kind : {"start_req"}, err : {"quota", "unavail", "other", "tls", "socket"},
          region : {"-"}]

(***************************************************************************)
(* _update_pool_instances(pool, config).                                   *)
(*                                                                         *)
(* The loaded instances are the rows 1..Len(rows); del is the set of rows  *)
(* the function has deleted from the store, left is instances_left.  Every *)
(* change of a row is followed by instance.save(), so rows is also what    *)
(* the store holds.  instance_ids_by_region[r] and instances_by_ids are    *)
(* read off the rows: the ids of region r are the current ids of its rows  *)
(* (a fulfilled row's instance id is appended where its request id was) and*)
(* the request ids that stay behind never equal a provider instance id.    *)
(***************************************************************************)
RowsOf(S, r) == {i \in 1..Len(S.rows) : S.rows[i].region = r}

SlotOf(id) == id[2]

\* What check_spot_requests answers for the request of row i.
Outcome(S, i) ==
    LET p == S.prov[SlotOf(S.rows[i].id)]
    IN  IF p.kind = "ful" THEN "fulfilled"
        ELSE IF p.kind = "req" THEN p.rs
        ELSE "pending"

\* A fulfilment that tags the instance before it saves the record.
FulfilledTagFirst(k) == <<[op |-> "tag", k |-> k], [op |-> "save", k |-> k]>>


\* Lines 527-542 in the order of the statements: the record of request k
\* is saved with the instance id, then the instance is tagged Updatable.
Fulfilled(k) == <<[op |-> "save", k |-> k], [op |-> "tag", k |-> k]>>

\* Line 553: the expiry of a blacklist key in seconds, "ex=12 * 3600".
BlacklistExpiry == 12 * 3600

\* Lines 547-575: what is done for the result of the request of row i.
ResultEvents(S, i) ==
    LET k == SlotOf(S.rows[i].id)
    IN  CASE Outcome(S, i) = "fulfilled" -> Fulfilled(k)
          [] Outcome(S, i) \in {"cancelled", "closed"} ->
                 <<[op |-> "blacklist", k |-> k, ex |-> BlacklistExpiry],
                   [op |-> "delete", k |-> k]>>
          [] Outcome(S, i) = "failed" ->
                 <<[op |-> "entry", k |-> k], [op |-> "delete", k |-> k]>>
          [] OTHER -> <<>>

\* "for req_id, result in zip(requested, boto_results)", in the order of
\* the rows.
ResultLog(S, requested) ==
    LET F[n \in 0..Len(S.rows)] ==
            IF n = 0 THEN <<>>
            ELSE IF n \in requested THEN F[n - 1] \o ResultEvents(S, n)
            ELSE F[n - 1]
    IN  F[Len(S.rows)]

\* Lines 520-581: the results of check_spot_requests, one per request.
AfterCheck(S, requested) ==
    LET ful == {i \in requested : Outcome(S, i) = "fulfilled"}
        can == {i \in requested : Outcome(S, i) \in {"cancelled", "closed"}}
        fai == {i \in requested : Outcome(S, i) = "failed"}
    IN  [S EXCEPT
           !.log = @ \o ResultLog(S, requested),
           !.rows = [i \in 1..Len(S.rows) |->
                       IF i \in ful
                       THEN [S.rows[i] EXCEPT
                               !.hostname = TRUE,
                               !.id = InsId(SlotOf(S.rows[i].id)),
                               !.status = Mask(S.prov[SlotOf(S.rows[i].id)].code)]
                       ELSE S.rows[i]],
           !.prov = [k \in Slots |->
                       IF \E i \in ful : SlotOf(S.rows[i].id) = k
                       THEN [S.prov[k] EXCEPT !.kind = "inst", !.upd = TRUE]
                       ELSE S.prov[k]],
           !.bl = @ \cup {<<S.rows[i].zone, S.prov[SlotOf(S.rows[i].id)].type>> : i \in can},
           !.del = @ \cup can \cup fai,
           !.ent = [@ EXCEPT !["unclassified"] = @ + Cardinality(fai)],
           !.created = @ \/ ful # {}]

\* The row of region r that carries instance id InsId(k), or 0:
\* "boto_instance.id in instance_ids_by_region[region]".
RowOfInstance(S, r, k) ==
    IF \E i \in RowsOf(S, r) : S.rows[i].id = InsId(k)
    THEN CHOOSE i \in RowsOf(S, r) : S.rows[i].id = InsId(k)
    ELSE 0

\* Instance.objects.filter(ec2_instance_id=...) at line 618.
InStore(S, id) == \E i \in 1..Len(S.rows) : i \notin S.del /\ S.rows[i].id = id

\* A find loop without the assert: an instance without a record is passed over.
AfterFindNoAssert(S, r) ==
    LET found == {k \in Slots : S.prov[k].kind = "inst" /\ S.prov[k].region = r}
        row(k) == RowOfInstance(S, r, k)
        code(k) == Mask(S.prov[k].code)
        updatable(k) == S.prov[k].upd /\ k \notin S.lag
        raises(k) ==
            IF ~updatable(k)
            THEN row(k) # 0 /\ row(k) \notin S.left
            ELSE FALSE
        stop == IF \E k \in found : raises(k)
                THEN CHOOSE k \in found : raises(k) /\ \A j \in found : raises(j) => k <= j
                ELSE MaxSlots + 1
        done == {k \in found : k < stop}
        seen == {row(k) : k \in done} \ {0}
        upd == {row(k) : k \in {j \in done : updatable(j)}} \ {0}
        kOf(i) == CHOOSE k \in done : row(k) = i
    IN  [S EXCEPT
           !.left = @ \ seen,
           !.rows = [i \in 1..Len(S.rows) |->
                       IF i \in upd
                       THEN [S.rows[i] EXCEPT !.status = code(kOf(i)),
                                              !.hostname = TRUE]
                       ELSE S.rows[i]],
           !.out = IF stop <= MaxSlots THEN "raise" ELSE "run"]


\* Lines 583-645: the instances find() returns for the pool tag in region r,
\* in the provider's order.  instances_left.remove() of a row that is not in
\* the list raises ValueError and the assert at line 628 raises
\* AssertionError; neither is caught, and the rows handled before stay saved.
AfterFind(S, r) ==
    LET found == {k \in Slots : S.prov[k].kind = "inst" /\ S.prov[k].region = r}
        row(k) == RowOfInstance(S, r, k)
        code(k) == Mask(S.prov[k].code)
        updatable(k) == S.prov[k].upd /\ k \notin S.lag
        raises(k) ==
            IF ~updatable(k)
            THEN row(k) # 0 /\ row(k) \notin S.left
            ELSE /\ row(k) = 0
                 /\ code(k) \notin {INSTANCE_STATE["shutting-down"],
                                    INSTANCE_STATE["terminated"]}
                 /\ ~InStore(S, InsId(k))
        stop == IF \E k \in found : raises(k)
                THEN CHOOSE k \in found : raises(k) /\ \A j \in found : raises(j) => k <= j
                ELSE MaxSlots + 1
        done == {k \in found : k < stop}
        seen == {row(k) : k \in done} \ {0}
        upd == {row(k) : k \in {j \in done : updatable(j)}} \ {0}
        kOf(i) == CHOOSE k \in done : row(k) = i
    IN  [S EXCEPT
           !.left = @ \ seen,
           !.rows = [i \in 1..Len(S.rows) |->
                       IF i \in upd
                       THEN [S.rows[i] EXCEPT !.status = code(kOf(i)),
                                              !.hostname = TRUE]
                       ELSE S.rows[i]],
           !.out = IF stop <= MaxSlots THEN "raise" ELSE "run"]

\* The instances this call has tagged Updatable (line 542).
TaggedInCall(S) == {S.log[n].k : n \in {m \in 1..Len(S.log) : S.log[m].op = "tag"}}

\* Line 516: the rows of region r that are spot requests.
Requested(S, r) ==
    {i \in RowsOf(S, r) : S.rows[i].status = INSTANCE_STATE["requested"]}

\* Lines 583-674: find() for the pool tag in region r and its except clause.
FindRegion(S, r, f) ==
    IF f.kind = "upd_find" /\ f.region = r
    THEN [S EXCEPT !.ent = UpdateBotoError(@, f.err), !.out = "ret"]
    ELSE IF f.kind = "upd_taglag" /\ f.region = r
    THEN AfterFind([S EXCEPT !.lag = TaggedInCall(S)], r)
    ELSE AfterFind(S, r)

\* The body of "for region in instance_ids_by_region".
UpdateRegion(S, r, f) ==
    IF S.out # "run" THEN S
    ELSE IF f.kind = "upd_conn" /\ f.region = r
         THEN [S EXCEPT !.ent = AddEntry(@, "unclassified"), !.out = "ret"]
    ELSE IF Requested(S, r) # {} /\ f.kind = "upd_check" /\ f.region = r
         THEN [S EXCEPT !.ent = UpdateBotoError(@, f.err), !.out = "ret"]
    ELSE With(IF Requested(S, r) # {} THEN AfterCheck(S, Requested(S, r)) ELSE S,
              LAMBDA S1 : FindRegion(S1, r, f))

RECURSIVE UpdateRegions(_, _, _)
UpdateRegions(S, rs, f) ==
    IF rs = <<>> THEN S
    ELSE With(UpdateRegion(S, Head(rs), f),
              LAMBDA S1 : UpdateRegions(S1, Tail(rs), f))

\* An end of the update that reaps instances_left also after a return from
\* an except clause.
UpdateFinishReapOnError(S) ==
    IF S.out = "raise" THEN S
    ELSE [S EXCEPT
            !.del = @ \cup S.left,
            !.reaped = {S.rows[i].id : i \in S.left},
            !.ent = IF S.created /\ S.out = "run"
                    THEN ClearEntries(
                             ClearEntries(@, "max-spot-instance-count-exceeded"),
                             "temporary-failure")
                    ELSE @,
            !.cleared = IF S.created /\ S.out = "run"
                        THEN {"max-spot-instance-count-exceeded", "temporary-failure"}
                        ELSE {},
            !.out = IF S.out = "run" THEN "done" ELSE S.out]


\* An end of the update without the reap.
UpdateFinishNoReap(S) ==
    IF S.out # "run" THEN S
    ELSE [S EXCEPT
            !.ent = IF S.created
                    THEN ClearEntries(
                             ClearEntries(@, "max-spot-instance-count-exceeded"),
                             "temporary-failure")
                    ELSE @,
            !.cleared = IF S.created
                        THEN {"max-spot-instance-count-exceeded", "temporary-failure"}
                        ELSE {},
            !.out = "done"]


\* An end of the update that deletes every status entry of the pool once a
\* request was fulfilled.
UpdateFinishClearAll(S) ==
    IF S.out # "run" THEN S
    ELSE [S EXCEPT
            !.del = @ \cup S.left,
            !.ent = IF S.created THEN NoEntries ELSE @,
            !.cleared = IF S.created THEN POOL_STATUS_ENTRY_TYPE ELSE {},
            !.out = "done"]


\* An end of the update that keeps the warnings.
UpdateFinishKeep(S) ==
    IF S.out # "run" THEN S ELSE [S EXCEPT !.del = @ \cup S.left, !.out = "done"]


\* Lines 676-705: the reap of instances_left and the clearing of the
\* warnings a fulfilled request makes stale.
UpdateFinish(S) ==
    IF S.out # "run" THEN S
    ELSE [S EXCEPT
            !.del = @ \cup S.left,
            !.reaped = {S.rows[i].id : i \in S.left},
            !.ent = IF S.created
                    THEN ClearEntries(
                             ClearEntries(@, "max-spot-instance-count-exceeded"),
                             "temporary-failure")
                    ELSE @,
            !.cleared = IF S.created
                        THEN {"max-spot-instance-count-exceeded", "temporary-failure"}
                        ELSE {},
            !.out = "done"]

\* The rows still in the store, in their order.
Remaining(rows, del) ==
    LET keep == {i \in 1..Len(rows) : i \notin del}
        F[n \in 0..Len(rows)] ==
            IF n = 0 THEN <<>>
            ELSE IF n \in keep THEN Append(F[n - 1], rows[n]) ELSE F[n - 1]
    IN  F[Len(rows)]

\* The regions of a list of instances that occur in the order rorder:
\* the keys of _get_instance_ids_by_region as the dict iterates them.
_get_instance_ids_by_region(insts, rorder) ==
    SelectSeq(rorder, LAMBDA r : \E i \in 1..Len(insts) : insts[i].region = r)

\* What the function leaves behind: the store, the provider, and how it
\* ended ("done", "ret" for the return of an except clause, "raise").
UpdateResult(S) ==
    [instances |-> Remaining(S.rows, S.del), prov |-> S.prov, ent |-> S.ent,
     bl |-> S.bl, created |-> S.created, out |-> S.out, log |-> S.log,
     cleared |-> S.cleared, reaped |-> S.reaped]

\* A start of the update that puts every loaded instance into
\* instances_left, the requests too.
UpdateStartAllLeft(insts, pv, ent, bl) ==
    [rows |-> insts, del |-> {}, left |-> 1..Len(insts),
     prov |-> pv, ent |-> ent, bl |-> bl, created |-> FALSE, out |-> "run",
     log |-> <<>>, cleared |-> {}, lag |-> {}, reaped |-> {}]


\* Lines 492-505: the instances loaded, instances_left, instances_created.
UpdateStart(insts, pv, ent, bl) ==
    [rows |-> insts, del |-> {},
     left |-> {i \in 1..Len(insts) : insts[i].status # INSTANCE_STATE["requested"]},
     prov |-> pv, ent |-> ent, bl |-> bl, created |-> FALSE, out |-> "run",
     log |-> <<>>, cleared |-> {}, lag |-> {}, reaped |-> {}]

_update_pool_instances(insts, pv, ent, bl, f, rorder) ==
    With(UpdateRegions(UpdateStart(insts, pv, ent, bl),
                       _get_instance_ids_by_region(insts, rorder), f),
         LAMBDA S : UpdateResult(UpdateFinish(S)))

(***************************************************************************)
(* check_instance_pool, lines 61-93: count the cores the pool has, delete  *)
(* the instances that are gone and reset unexpected state codes to 0.      *)
(* status - 256 is only done in memory; what is saved is the reset to 0.   *)
(***************************************************************************)
FixedCode(status) == IF status >= 256 THEN status - 256 ELSE status

\* A count that takes only running instances for present.
IsCountedRunning(status) == FixedCode(status) = INSTANCE_STATE["running"]

IsCounted(status) ==
    FixedCode(status) \in {INSTANCE_STATE["running"], INSTANCE_STATE["pending"],
                           INSTANCE_STATE["requested"]}

IsGone(status) ==
    FixedCode(status) \in {INSTANCE_STATE["shutting-down"], INSTANCE_STATE["terminated"]}

RECURSIVE SumSize(_)
SumSize(insts) ==
    IF insts = <<>> THEN 0 ELSE Head(insts).size + SumSize(Tail(insts))

\* A count that leaves the instances that are gone in the store.
CountCapacityKeep(insts, size) ==
    LET saved == [i \in 1..Len(insts) |->
                    IF IsCounted(insts[i].status) \/ IsGone(insts[i].status)
                    THEN insts[i]
                    ELSE [insts[i] EXCEPT !.status = 0]]
        running == SelectSeq(saved, LAMBDA x : ~IsGone(x.status))
    IN  [instances |-> saved,
         running_instances |-> running,
         instance_cores_missing |-> size - SumSize(running)]

CountCapacity(insts, size) ==
    LET kept == SelectSeq(insts, LAMBDA x : ~IsGone(x.status))
        saved == [i \in 1..Len(kept) |->
                    IF IsCounted(kept[i].status) THEN kept[i]
                    ELSE [kept[i] EXCEPT !.status = 0]]
    IN  [instances |-> saved,
         running_instances |-> saved,
         instance_cores_missing |-> size - SumSize(saved)]

(***************************************************************************)
(* _terminate_pool_instances(pool, instances, config, terminateByPool).    *)
(* cluster.terminate() puts an instance that is not yet shutting down or   *)
(* terminated into shutting-down.  targets is the set of provider          *)
(* instances handed to cluster.terminate().                                *)
(***************************************************************************)
TerminateRegion(T, r, insts, byPool, f) ==
    IF T.out # "run" THEN T
    ELSE IF f.kind = "term_conn" /\ f.region = r
         THEN [T EXCEPT !.ent = AddEntry(@, "unclassified"), !.out = "ret"]
    ELSE IF f.kind = "term_boto" /\ f.region = r
         THEN [T EXCEPT !.out = "ret"]
    ELSE LET ids == {insts[i].id : i \in {j \in 1..Len(insts) : insts[j].region = r}}
             found == {k \in Slots :
                         /\ T.prov[k].kind = "inst"
                         /\ T.prov[k].region = r
                         /\ byPool \/ InsId(k) \in ids}
         IN  [T EXCEPT
                !.prov = [k \in Slots |->
                            IF k \in found /\ T.prov[k].code \in LiveCodes
                            THEN [T.prov[k] EXCEPT !.code = INSTANCE_STATE["shutting-down"]]
                            ELSE T.prov[k]],
                !.targets = @ \cup found,
                !.calls = @ \cup {r}]

RECURSIVE TerminateRegions(_, _, _, _, _)
TerminateRegions(T, rs, insts, byPool, f) ==
    IF rs = <<>> THEN T
    ELSE With(TerminateRegion(T, Head(rs), insts, byPool, f),
              LAMBDA T1 : TerminateRegions(T1, Tail(rs), insts, byPool, f))

_terminate_pool_instances(insts, byPool, pv, ent, f, rorder) ==
    TerminateRegions([prov |-> pv, ent |-> ent, targets |-> {}, calls |-> {},
                      out |-> "run"],
                     _get_instance_ids_by_region(insts, rorder), insts, byPool, f)

(***************************************************************************)
(* _start_pool_instances(pool, config, count).                             *)
(***************************************************************************)
UsedSlots(insts, pv) ==
    {k \in Slots : pv[k].kind # "free"} \cup {SlotOf(insts[i].id) : i \in 1..Len(insts)}

\* The n lowest numbers of a set of slots, in order.
RECURSIVE FirstN(_, _)
FirstN(free, n) ==
    IF n = 0 \/ free = {} THEN <<>>
    ELSE LET k == CHOOSE x \in free : \A y \in free : x <= y
         IN  <<k>> \o FirstN(free \ {k}, n - 1)

\* A loop over the request ids that saves the first one only.
CreateSpotRequestsFirst(insts, pv, ent, best, n, f) ==
    LET free == Slots \ UsedSlots(insts, pv)
        new == FirstN(free, n)
    IN  IF f.kind = "start_req" \/ Cardinality(free) < n
        THEN [instances |-> insts, prov |-> pv,
              ent |-> UpdateBotoError(ent, IF f.kind = "start_req" THEN f.err ELSE "quota"),
              out |-> "ok", made |-> 0, refused |-> f.kind # "start_req"]
        ELSE [instances |->
                  Append(insts, [id |-> ReqId(new[1]), region |-> best.region,
                                 zone |-> best.zone,
                                 status |-> INSTANCE_STATE["requested"],
                                 size |-> CORES_PER_INSTANCE[best.type],
                                 hostname |-> FALSE]),
              prov |-> [k \in Slots |->
                          IF \E j \in 1..n : new[j] = k
                          THEN [kind |-> "req", rs |-> "pending", code |-> 0,
                                upd |-> FALSE, type |-> best.type,
                                region |-> best.region, zone |-> best.zone]
                          ELSE pv[k]],
              ent |-> ent, out |-> "ok", made |-> 1, refused |-> FALSE]


\* Lines 356-369: the request ids create_spot_requests returns, each saved
\* as an Instance in state requested.  The provider has MaxSlots request
\* numbers: it answers MaxSpotInstanceCountExceeded when they run out.
CreateSpotRequests(insts, pv, ent, best, n, f) ==
    LET free == Slots \ UsedSlots(insts, pv)
        new == FirstN(free, n)
        err == IF f.kind = "start_req" THEN f.err
               ELSE IF Cardinality(free) < n THEN "quota"
               ELSE "none"
    IN  IF err # "none"
        THEN [instances |-> insts, prov |-> pv, ent |-> UpdateBotoError(ent, err),
              out |-> "ok", made |-> 0, refused |-> f.kind # "start_req",
              err |-> err]
        ELSE [instances |->
                  insts \o [j \in 1..n |->
                              [id |-> ReqId(new[j]), region |-> best.region,
                               zone |-> best.zone,
                               status |-> INSTANCE_STATE["requested"],
                               size |-> CORES_PER_INSTANCE[best.type],
                               hostname |-> FALSE]],
              prov |-> [k \in Slots |->
                          IF \E j \in 1..n : new[j] = k
                          THEN [kind |-> "req", rs |-> "pending", code |-> 0,
                                upd |-> FALSE, type |-> best.type,
                                region |-> best.region, zone |-> best.zone]
                          ELSE pv[k]],
              ent |-> ent, out |-> "ok", made |-> n, refused |-> FALSE]

\* A conversion that rounds up instead of down.
InstancesToRequestCeil(count, type) == count \div CORES_PER_INSTANCE[type] + 1

\* Line 268: count from cores to whole instances.
InstancesToRequest(count, type) == Max(1, count \div CORES_PER_INSTANCE[type])

\* Lines 268-380, with the (region, zone, type) the selector chose.
StartIn(best, count, insts, pv, ent, f) ==
    LET stay == [instances |-> insts, prov |-> pv, ent |-> ent, out |-> "ok",
                 made |-> 0, spot |-> 0, type |-> best.type, region |-> best.region,
                 zone |-> best.zone, refused |-> FALSE, cleared |-> {},
                 err |-> "none"]
    IN  \* line 268, before the test of region: CORES_PER_INSTANCE[None]
        \* raises KeyError when no (region, zone, type) qualified
        IF best.type = "None" THEN [stay EXCEPT !.out = "raise"]
        ELSE
        LET n == InstancesToRequest(count, best.type)
            ent1 == ClearEntries(ent, "price-too-low")
            went == [stay EXCEPT !.cleared = {"price-too-low"}]
        IN  CASE f.kind = "start_userdata" ->
                   [went EXCEPT !.ent = AddEntry(ent1, "config-error"), !.out = "raise"]
              [] f.kind = "start_ssl" ->
                   [went EXCEPT !.ent = AddEntry(ent1, "temporary-failure"),
                                !.err = "ssl_connect"]
              [] f.kind = "start_conn" ->
                   [went EXCEPT !.ent = AddEntry(ent1, "unclassified"),
                                !.err = "connect"]
              [] OTHER ->
                   CreateSpotRequests(insts, pv, ent1, best, n, f)
                     @@ [went EXCEPT !.spot = n]

_start_pool_instances(cfg, count, insts, pv, ent, bl, f) ==
    With(_get_best_region_zone(allowed_types(cfg.ec2_instance_types, count),
                               cfg, bl),
         LAMBDA best : StartIn(best, count, insts, pv, ent, f))

(***************************************************************************)
(* check_instance_pool, lines 117-134: the instances scale-down selects,   *)
(* oldest first, skipping those that would leave the pool short.           *)
(***************************************************************************)
\* A selection that takes the oldest instances while cores are in excess,
\* without the skip.
RECURSIVE SelectOldestNoSkip(_, _)
SelectOldestNoSkip(insts, missing) ==
    IF insts = <<>> \/ missing >= 0 THEN <<>>
    ELSE <<Head(insts)>> \o SelectOldestNoSkip(Tail(insts), missing + Head(insts).size)


RECURSIVE SelectOldest(_, _)
SelectOldest(insts, missing) ==
    IF insts = <<>> \/ missing = 0 THEN <<>>
    ELSE IF missing + Head(insts).size > 0
         THEN SelectOldest(Tail(insts), missing)
         ELSE <<Head(insts)>> \o SelectOldest(Tail(insts), missing + Head(insts).size)

\* models.Instance has the fields of section 3 (ec2_instance_id, ec2_region,
\* ec2_zone, hostname, size, status_code, created): it has no attribute
\* count, so "sum(instance.count for instance in instances)" at line 131
\* raises AttributeError.
InstanceHasCount == FALSE

(***************************************************************************)
(* check_instance_pool(pool_id), lines 36-136: the body under the lock.    *)
(* pl.last_cycled is the age of last_cycled in seconds, NoneAge for an     *)
(* unset one; "last_cycled = timezone.now()" makes it 0.                   *)
(***************************************************************************)
Due(pl, cfg) == pl.last_cycled = NoneAge \/ pl.last_cycled > cfg.cycle_interval

\* A query that finds no critical entry.
criticalPoolStatusEntriesNone(ent) == {}

\* A configuration check that accepts everything.
ConfigInvalidNever(cfg) == FALSE

\* A test of isEnabled that takes every pool for enabled.
PoolDisabledNever(pl) == FALSE

\* Line 40: PoolStatusEntry.objects.filter(pool=instance_pool, isCritical=True),
\* as the set of the types that have such an entry.
criticalPoolStatusEntries(ent) ==
    {t \in POOL_STATUS_ENTRY_TYPE : IsCriticalType(t) /\ ent[t] > 0}

\* Line 45: config.isCyclic() or config.getMissingParameters().
ConfigInvalid(cfg) == cfg.bad

\* Line 98: not instance_pool.isEnabled.
PoolDisabled(pl) == ~pl.isEnabled

\* What a call of _terminate_pool_instances leaves behind.
Terminated(R, T, how) ==
    [R EXCEPT !.prov = T.prov, !.entries = T.ent,
              !.tr.targets = @ \cup T.targets, !.tr.calls = @ \cup T.calls,
              !.tr.terminate = how, !.tr.termOut = T.out]

\* Lines 114-115: what _start_pool_instances leaves behind.
Started(R, St) ==
    [R EXCEPT !.instances = St.instances, !.prov = St.prov, !.entries = St.ent,
              !.tr.spot = St.spot, !.tr.made = St.made,
              !.tr.type = St.type, !.tr.refused = St.refused,
              !.tr.region = St.region, !.tr.zone = St.zone,
              !.tr.startErr = St.err,
              !.tr.deleted = @ \cup St.cleared,
              !.tr.exit = IF St.out = "raise" THEN "raised" ELSE "done"]

\* Lines 129-134: the instances selected are terminated.
ScaleDown(R, sel, f, rorder) ==
    IF sel = <<>> THEN [R EXCEPT !.tr.exit = "done"]
    ELSE IF ~InstanceHasCount
         THEN [R EXCEPT !.tr.selected = sel, !.tr.exit = "raised"]
    ELSE With(_terminate_pool_instances(sel, FALSE, R.prov, R.entries, f, rorder),
              LAMBDA T : [Terminated(R, T, "byInstances")
                            EXCEPT !.tr.selected = sel, !.tr.exit = "done"])

\* Lines 113-136: scale up, scale down, or leave the size as it is.
Scale(R, cfg, missing, f, rorder) ==
    IF missing > 0
    THEN With(_start_pool_instances(cfg, missing, R.instances, R.prov,
                                    R.entries, R.blacklist, f),
              LAMBDA St : Started(R, St))
    ELSE IF missing < 0
    THEN ScaleDown(R, SelectOldest(R.instances, missing), f, rorder)
    ELSE [R EXCEPT !.tr.exit = "done"]

\* A cycle that sets last_cycled and terminates nothing.
CycleNoTerminate(R, cfg, running, f, rorder) ==
    IF Due(R.pool, cfg) THEN [R EXCEPT !.pool.last_cycled = 0] ELSE R

\* Lines 104-111: the cycle.  There is no return after it.
Cycle(R, cfg, running, f, rorder) ==
    IF Due(R.pool, cfg)
    THEN With(_terminate_pool_instances(running, TRUE, R.prov, R.entries, f, rorder),
              LAMBDA T : [Terminated(R, T, "byPool") EXCEPT !.pool.last_cycled = 0])
    ELSE R

\* A disabled branch that returns without terminating.
DisabledNoTerminate(R, running, f, rorder) == [R EXCEPT !.tr.exit = "disabled"]

\* Lines 98-102: a disabled pool.
Disabled(R, running, f, rorder) ==
    IF running # <<>>
    THEN With(_terminate_pool_instances(running, TRUE, R.prov, R.entries, f, rorder),
              LAMBDA T : [Terminated(R, T, "byPool") EXCEPT !.tr.exit = "disabled"])
    ELSE [R EXCEPT !.tr.exit = "disabled"]

\* Lines 95-136, with the store as the count left it.
AfterCount(R, cfg, running, missing, f, rorder) ==
    IF PoolDisabled(R.pool)
    THEN Disabled(R, running, f, rorder)
    ELSE With(Cycle(R, cfg, running, f, rorder),
              LAMBDA R1 : Scale(R1, cfg, missing, f, rorder))

\* Lines 61-93, the count, and what follows it.
Counted(R, C, cfg, f, rorder) ==
    With([R EXCEPT !.instances = C.instances,
                   !.tr.missing = C.instance_cores_missing],
         LAMBDA R1 : AfterCount(R1, cfg, C.running_instances,
                                C.instance_cores_missing, f, rorder))

\* Lines 58-136, with what _update_pool_instances left behind.
Updated(R, U, cfg, f, rorder) ==
    IF U.out = "raise" THEN [R EXCEPT !.tr.exit = "raised"]
    ELSE With(CountCapacity(U.instances, cfg.size),
              LAMBDA C : Counted(R, C, cfg, f, rorder))

\* Lines 56-136, from _update_pool_instances on.
Reconciled(R, U, cfg, f, rorder) ==
    With([R EXCEPT !.instances = U.instances, !.prov = U.prov,
                   !.entries = U.ent, !.blacklist = U.bl,
                   !.tr.upd = U.out, !.tr.afterUpd = U.instances,
                   !.tr.log = U.log, !.tr.updEnt = U.ent, !.tr.reaped = U.reaped,
                   !.tr.deleted = U.cleared],
         LAMBDA R1 : Updated(R1, U, cfg, f, rorder))

Reconcile(R, cfg, f, rorder) ==
    With(_update_pool_instances(R.instances, R.prov, R.entries, R.blacklist,
                                f, rorder),
         LAMBDA U : Reconciled(R, U, cfg, f, rorder))

\* The state a tick starts from and the empty history of it.
TickStart(pl, cfg, insts, ent, pv, bl, f) ==
    [pool |-> pl, instances |-> insts, entries |-> ent, prov |-> pv,
     blacklist |-> bl,
     tr |-> [NoTick EXCEPT
               !.pre = [frozen |-> IsFrozen(ent), bad |-> cfg.bad,
                        enabled |-> pl.isEnabled, due |-> Due(pl, cfg),
                        last_cycled |-> pl.last_cycled, size |-> cfg.size,
                        warned |-> {t \in POOL_STATUS_ENTRY_TYPE :
                                      ~IsCriticalType(t) /\ ent[t] > 0}],
               !.fault = f.kind]]

\* A gate that refreshes the instances of a frozen pool before it returns.
GateRefreshFrozen(R, cfg, f, rorder) ==
    IF criticalPoolStatusEntries(R.entries) # {}
    THEN With(_update_pool_instances(R.instances, R.prov, R.entries, R.blacklist,
                                     f, rorder),
              LAMBDA U : [R EXCEPT !.instances = U.instances, !.prov = U.prov,
                                   !.tr.upd = U.out, !.tr.exit = "frozen"])
    ELSE IF ConfigInvalid(cfg)
         THEN [R EXCEPT !.entries = AddEntry(@, "config-error"),
                        !.tr.exit = "config"]
    ELSE Reconcile(R, cfg, f, rorder)


\* Lines 38-136 on the state R.
Gate(R, cfg, f, rorder) ==
    IF criticalPoolStatusEntries(R.entries) # {} THEN [R EXCEPT !.tr.exit = "frozen"]
    ELSE IF ConfigInvalid(cfg)
         THEN [R EXCEPT !.entries = AddEntry(@, "config-error"),
                        !.tr.exit = "config"]
    ELSE Reconcile(R, cfg, f, rorder)

check_instance_pool(pl, cfg, insts, ent, pv, bl, f, rorder) ==
    With(TickStart(pl, cfg, insts, ent, pv, bl, f),
         LAMBDA R : Gate(R, cfg, f, rorder))

\* A release at the returns only: an exception leaves the lock held.
FinallyOnReturn(exit, w) == IF exit = "raised" THEN w ELSE 0

\* The finally clause, line 139: lock.release() on every way out.
Finally(exit, w) == 0

(***************************************************************************)
(* The state machine.                                                      *)
(***************************************************************************)
InitWith(cfgs) ==
    /\ pc = [w \in Workers |-> "idle"]
    /\ lock = 0
    /\ pool = [isEnabled |-> TRUE, last_cycled |-> NoneAge]
    /\ config \in cfgs
    /\ instances = <<>>
    /\ entries = NoEntries
    /\ prov = [k \in Slots |-> FreeSlot]
    /\ blacklist = {}
    /\ tr = NoTick

store == <<pool, config, instances, entries, prov, blacklist>>

\* An acquire that does not look at the lock file.
CanAcquireAlways(w) == TRUE

\* lock.acquire(blocking=False) succeeds when nobody holds the lock file.
CanAcquire(w) == lock = 0

\* Lines 30-32: worker w starts check_instance_pool and takes the lock.
Acquire(w) ==
    /\ pc[w] = "idle"
    /\ CanAcquire(w)
    /\ lock' = w
    /\ pc' = [pc EXCEPT ![w] = "locked"]
    /\ UNCHANGED <<store, tr>>

\* Lines 32-34: the lock is held, the invocation logs and returns.
AcquireFail(w) ==
    /\ pc[w] = "idle"
    /\ ~CanAcquire(w)
    /\ tr' = [NoTick EXCEPT !.exit = "busy"]
    /\ UNCHANGED <<pc, lock, store>>

\* The orders the dict of the pool's regions can iterate in; one order when
\* the instances lie in fewer than two regions.
RegionOrders(insts) ==
    LET n == Cardinality(Regions)
        all == {o \in [1..n -> Regions] : \A i, j \in 1..n : i # j => o[i] # o[j]}
    IN  IF Cardinality({insts[i].region : i \in 1..Len(insts)}) < 2
        THEN {CHOOSE o \in all : TRUE}
        ELSE all

\* temporary-failure entries are not deduplicated: the provider answers
\* with a temporary failure at most MaxTempFail times in a row.
TempFailRoom(f) ==
    (f.err = "unavail" \/ f.kind = "start_ssl")
        => entries["temporary-failure"] < MaxTempFail

\* The tick's writes reach the store, the provider and the cache.
Commit(R) ==
    /\ pool' = R.pool
    /\ instances' = R.instances
    /\ entries' = R.entries
    /\ prov' = R.prov
    /\ blacklist' = R.blacklist
    /\ tr' = [R.tr EXCEPT !.prev = [exit |-> tr.exit, made |-> tr.made,
                                     targets |-> tr.targets]]

\* Lines 36-139: the body under the lock, with a fault of F.
Body(F) ==
    \E f \in F, rorder \in RegionOrders(instances) :
        /\ TempFailRoom(f)
        /\ \E R \in {check_instance_pool(pool, config, instances, entries, prov,
                                         blacklist, f, rorder)} : Commit(R)
        /\ UNCHANGED config

\* Worker w, holding the lock, runs the body and releases the lock.
Tick(w, F) ==
    /\ pc[w] = "locked"
    /\ Body(F)
    /\ lock' = Finally(tr'.exit, w)
    /\ pc' = [pc EXCEPT ![w] = "idle"]

\* A whole invocation of check_instance_pool with nobody else about:
\* acquire, body, release.
Invoke(F) ==
    /\ \A w \in Workers : pc[w] = "idle"
    /\ CanAcquire(1)
    /\ Body(F)
    /\ lock' = Finally(tr'.exit, 1)
    /\ UNCHANGED pc

(***************************************************************************)
(* The environment: the operator, the clock, the provider, the cache.      *)
(***************************************************************************)
Forgot == tr' = NoTick

SetEnabled ==
    /\ pool' = [pool EXCEPT !.isEnabled = ~@]
    /\ Forgot
    /\ UNCHANGED <<pc, lock, config, instances, entries, prov, blacklist>>

SetSize(S) ==
    /\ \E s \in S \ {config.size} : config' = [config EXCEPT !.size = s]
    /\ Forgot
    /\ UNCHANGED <<pc, lock, pool, instances, entries, prov, blacklist>>

SetBad ==
    /\ config' = [config EXCEPT !.bad = ~@]
    /\ Forgot
    /\ UNCHANGED <<pc, lock, pool, instances, entries, prov, blacklist>>

\* The operator deletes the status entries of one type.
DeleteEntries(t) ==
    /\ entries[t] > 0
    /\ entries' = ClearEntries(entries, t)
    /\ Forgot
    /\ UNCHANGED <<pc, lock, pool, config, instances, prov, blacklist>>

\* More than cycle_interval seconds pass.
Advance ==
    /\ pool.last_cycled # NoneAge
    /\ pool.last_cycled <= config.cycle_interval
    /\ pool' = [pool EXCEPT !.last_cycled = config.cycle_interval + 1]
    /\ Forgot
    /\ UNCHANGED <<pc, lock, config, instances, entries, prov, blacklist>>

\* A spot request is fulfilled: its instance runs (0x110).
Fulfil(k) ==
    /\ prov[k].kind = "req"
    /\ prov[k].rs \in {"pending", "open", "active"}
    /\ prov' = [prov EXCEPT ![k].kind = "ful", ![k].rs = "-", ![k].code = 272]
    /\ Forgot
    /\ UNCHANGED <<pc, lock, pool, config, instances, entries, blacklist>>

\* A spot request is opened, cancelled (or closed), or fails.
RequestMoves(k, RS) ==
    /\ prov[k].kind = "req"
    /\ prov[k].rs = "pending"
    /\ \E rs \in RS : prov' = [prov EXCEPT ![k].rs = rs]
    /\ Forgot
    /\ UNCHANGED <<pc, lock, pool, config, instances, entries, blacklist>>

\* An instance the pool knows stops (an undocumented code for the pool).
Stops(k) ==
    /\ prov[k].kind = "inst"
    /\ prov[k].code \in {16, 272}
    /\ prov' = [prov EXCEPT ![k].code = 64]
    /\ Forgot
    /\ UNCHANGED <<pc, lock, pool, config, instances, entries, blacklist>>

\* An instance the pool knows is reclaimed, or goes on to terminated.
Dies(k) ==
    /\ prov[k].kind = "inst"
    /\ \/ /\ prov[k].code \in LiveCodes
          /\ prov' = [prov EXCEPT ![k].code = 32]
       \/ /\ prov[k].code = 32
          /\ prov' = [prov EXCEPT ![k].code = 48]
    /\ Forgot
    /\ UNCHANGED <<pc, lock, pool, config, instances, entries, blacklist>>

\* The Updatable tag of an instance is taken away or set to 0 from outside.
Untag(k) ==
    /\ prov[k].kind = "inst"
    /\ prov[k].upd
    /\ prov' = [prov EXCEPT ![k].upd = FALSE]
    /\ Forgot
    /\ UNCHANGED <<pc, lock, pool, config, instances, entries, blacklist>>

\* An instance that carries the pool's tags and runs in zone z of region r
\* turns up at the provider without a record in the store.
Rogue(k, r, z) ==
    /\ prov[k].kind = "free"
    /\ \A i \in 1..Len(instances) : SlotOf(instances[i].id) # k
    /\ prov' = [prov EXCEPT ![k] = [kind |-> "inst", rs |-> "-", code |-> 16,
                                    upd |-> TRUE, type |-> "c4.large",
                                    region |-> r, zone |-> z]]
    /\ Forgot
    /\ UNCHANGED <<pc, lock, pool, config, instances, entries, blacklist>>

\* The provider drops what is over: a terminated instance, or a request
\* that is over and that no record names any more.
Forget(k) ==
    /\ \/ prov[k].kind = "inst" /\ prov[k].code = 48
       \/ /\ prov[k].kind = "req" /\ prov[k].rs \in {"cancelled", "closed", "failed"}
          /\ \A i \in 1..Len(instances) : instances[i].id # ReqId(k)
    /\ prov' = [prov EXCEPT ![k] = FreeSlot]
    /\ Forgot
    /\ UNCHANGED <<pc, lock, pool, config, instances, entries, blacklist>>

\* A blacklist key expires.
Expire(b) ==
    /\ b \in blacklist
    /\ blacklist' = blacklist \ {b}
    /\ Forgot
    /\ UNCHANGED <<pc, lock, pool, config, instances, entries, prov>>

(***************************************************************************)
(* The pool on its own: one worker, a pool of 3 or 4 cores of both types,  *)
(* a provider that fulfils requests and whose instances stop and die.      *)
(***************************************************************************)
BothTypes == <<"c4.large", "c4.xlarge">>

PoolConfig(s, ts) ==
    [size |-> s, ec2_instance_types |-> ts, ec2_allowed_regions |-> Regions,
     ec2_max_price |-> 4, cycle_interval |-> 1, bad |-> FALSE]

FaultOf(kind, err, region) == [kind |-> kind, err |-> err, region |-> region]

MainFaults == {NoFault, FaultOf("upd_conn", "-", "us-east-1")}

Init == InitWith({PoolConfig(3, BothTypes)})

Next ==
    \/ Invoke(MainFaults)
    \/ SetEnabled
    \/ SetSize({3, 4})
    \/ DeleteEntries("unclassified")
    \/ Advance
    \/ \E k \in Slots : Fulfil(k)
    \/ \E k \in Slots : Stops(k)
    \/ \E k \in Slots : Dies(k)
    \/ \E k \in Slots : Forget(k)

Spec == Init /\ [][Next]_vars

(***************************************************************************)
(* Two workers and the lock: the acquire and the body are separate steps,  *)
(* the operator breaks and mends the configuration, disables and enables   *)
(* the pool and deletes config-error entries; UserData.handle_tags can     *)
(* fail, which makes the body raise.                                       *)
(***************************************************************************)
LockFaults == {NoFault, FaultOf("start_userdata", "-", "-")}

NextLock ==
    \/ \E w \in Workers : Acquire(w)
    \/ \E w \in Workers : AcquireFail(w)
    \/ \E w \in Workers : Tick(w, LockFaults)
    \/ SetBad
    \/ SetEnabled
    \/ DeleteEntries("config-error")
    \/ \E k \in Slots : Fulfil(k)

SpecLock == Init /\ [][NextLock]_vars

(***************************************************************************)
(* The operator and the configuration: one worker, the operator breaks and *)
(* mends the configuration and deletes the config-error entries.           *)
(***************************************************************************)
NoFaults == {NoFault}

NextConfig ==
    \/ Invoke(NoFaults)
    \/ SetBad
    \/ DeleteEntries("config-error")
    \/ Advance
    \/ \E k \in Slots : Fulfil(k)
    \/ \E k \in Slots : Dies(k)

SpecConfig == Init /\ [][NextConfig]_vars

(***************************************************************************)
(* A pool that is disabled for good.  The ticks come round for ever and    *)
(* the provider settles the requests that are open: it fulfils them or,    *)
(* at the latest when their timeout (line 361) is over, cancels them.      *)
(***************************************************************************)
Settle(k) == Fulfil(k) \/ RequestMoves(k, {"cancelled"})

Disable ==
    /\ pool.isEnabled
    /\ pool' = [pool EXCEPT !.isEnabled = FALSE]
    /\ Forgot
    /\ UNCHANGED <<pc, lock, config, instances, entries, prov, blacklist>>

NextDrain ==
    \/ Invoke(NoFaults)
    \/ Disable
    \/ \E k \in Slots : Settle(k)
    \/ \E k \in Slots : Dies(k)
    \/ \E k \in Slots : Forget(k)

SpecDrain ==
    /\ Init
    /\ [][NextDrain]_vars
    /\ WF_vars(Invoke(NoFaults))
    /\ \A k \in Slots : WF_vars(Settle(k))

(***************************************************************************)
(* Prices and the blacklist: a pool of 4 cores, of c4.large only or of     *)
(* both types.  The operator changes ec2_max_price, the provider cancels  *)
(* or closes spot requests, and blacklist keys expire.                     *)
(***************************************************************************)
SetPrice(P) ==
    /\ \E p \in P \ {config.ec2_max_price} :
           config' = [config EXCEPT !.ec2_max_price = p]
    /\ Forgot
    /\ UNCHANGED <<pc, lock, pool, instances, entries, prov, blacklist>>

InitPrice == InitWith({PoolConfig(4, <<"c4.large">>), PoolConfig(4, BothTypes)})

NextPrice ==
    \/ Invoke(NoFaults)
    \/ SetPrice({1, 4})
    \/ \E k \in Slots : RequestMoves(k, {"cancelled", "closed"})
    \/ \E k \in Slots : Forget(k)
    \/ \E b \in Zones \X Types : Expire(b)

SpecPrice == InitPrice /\ [][NextPrice]_vars

(***************************************************************************)
(* A provider that fails: create_spot_requests is refused for the quota or *)
(* because the service is unavailable, find() in us-east-1 answers Service *)
(* Unavailable, and spot requests are fulfilled or fail.  The operator     *)
(* deletes the unclassified entries.                                       *)
(***************************************************************************)
FailFaults ==
    {NoFault, FaultOf("start_req", "quota", "-"), FaultOf("start_req", "unavail", "-"),
     FaultOf("upd_find", "unavail", "us-east-1")}

NextFail ==
    \/ Invoke(FailFaults)
    \/ DeleteEntries("unclassified")
    \/ \E k \in Slots : Fulfil(k)
    \/ \E k \in Slots : RequestMoves(k, {"failed"})
    \/ \E k \in Slots : Dies(k)
    \/ \E k \in Slots : Forget(k)

SpecFail == Init /\ [][NextFail]_vars

(***************************************************************************)
(* A pool that shrinks: 6 cores of both types to begin with, the operator  *)
(* changes the size, the provider fulfils the requests, instances die.     *)
(***************************************************************************)
InitScale == InitWith({PoolConfig(6, BothTypes)})

NextScale ==
    \/ Invoke(NoFaults)
    \/ SetSize({2, 3, 4, 6})
    \/ \E k \in Slots : Fulfil(k)
    \/ \E k \in Slots : Dies(k)
    \/ \E k \in Slots : Forget(k)

SpecScale == InitScale /\ [][NextScale]_vars

(***************************************************************************)
(* The refresh of the store: a pool of 6 cores in two regions.  Spot       *)
(* requests are reported open or active or are fulfilled, instances die    *)
(* and the provider drops them.                                            *)
(***************************************************************************)
NextUpdate ==
    \/ Invoke(NoFaults)
    \/ \E k \in Slots : Fulfil(k)
    \/ \E k \in Slots : RequestMoves(k, {"open", "active"})
    \/ \E k \in Slots : Dies(k)
    \/ \E k \in Slots : Forget(k)

SpecUpdate == InitScale /\ [][NextUpdate]_vars

(***************************************************************************)
(* The Updatable tag: the same pool.  Instances lose their Updatable tag   *)
(* or turn up without a record, and find can answer before the tags just   *)
(* added show.                                                             *)
(***************************************************************************)
TagFaults == {NoFault, FaultOf("upd_taglag", "-", "us-west-2")}

NextTags ==
    \/ Invoke(TagFaults)
    \/ \E k \in Slots : Fulfil(k)
    \/ \E k \in Slots : Untag(k)
    \/ \E k \in Slots : Rogue(k, "us-west-2", "us-west-2a")

SpecTags == InitScale /\ [][NextTags]_vars

(***************************************************************************)
(* The region selector on its own: _get_best_region_zone applied to        *)
(* configurations and blacklists drawn from small sets, over the price     *)
(* cache above.  The configurations name a type the cache has no prices    *)
(* for, and two types whose cheapest zones have the same per-core median.  *)
(***************************************************************************)
SelectTypeSeqs ==
    {<<"c4.4xlarge">>, <<"c4.large">>,
     <<"c4.xlarge", "c4.2xlarge">>, <<"c4.2xlarge", "c4.xlarge">>,
     <<"c4.large", "c4.4xlarge", "c4.xlarge", "c4.2xlarge">>}

SelectPrices == 1..5

SelectBlacklists ==
    SUBSET {<<"us-west-2a", "c4.xlarge">>, <<"us-west-2a", "c4.2xlarge">>,
            <<"us-east-1a", "c4.large">>}

SelectConfigs ==
    {[PoolConfig(4, ts) EXCEPT !.ec2_allowed_regions = a, !.ec2_max_price = p] :
        ts \in SelectTypeSeqs, a \in (SUBSET Regions) \ {{}}, p \in SelectPrices}

InitSelect ==
    /\ pc = [w \in Workers |-> "idle"]
    /\ lock = 0
    /\ pool = [isEnabled |-> TRUE, last_cycled |-> NoneAge]
    /\ config \in SelectConfigs
    /\ instances = <<>>
    /\ entries = NoEntries
    /\ prov = [k \in Slots |-> FreeSlot]
    /\ blacklist \in SelectBlacklists
    /\ tr = NoTick

\* A call of _get_best_region_zone(config); tr.sel holds what it returned.
Select ==
    /\ tr' = [NoTick EXCEPT !.sel =
                 <<_get_best_region_zone(config.ec2_instance_types, config,
                                         blacklist)>>]
    /\ UNCHANGED <<pc, lock, pool, config, instances, entries, prov, blacklist>>

NextSelect ==
    \/ Select
    \/ \E b \in Zones \X Types : Expire(b)

SpecSelect == InitSelect /\ [][NextSelect]_vars


(***************************************************************************)
(* Terminations that fail: the operator disables and enables the pool, and *)
(* the provider fails the connect or the find/terminate of                 *)
(* _terminate_pool_instances.                                              *)
(***************************************************************************)
TermFaults ==
    {NoFault, FaultOf("term_conn", "-", "us-east-1"),
     FaultOf("term_boto", "-", "us-east-1")}

NextTerm ==
    \/ Invoke(TermFaults)
    \/ SetEnabled
    \/ DeleteEntries("unclassified")
    \/ Advance
    \/ \E k \in Slots : Fulfil(k)

SpecTerm == Init /\ [][NextTerm]_vars


(***************************************************************************)
(* Scale-ups that fail: the provider fails the connect or the spot request *)
(* of _start_pool_instances in each of the ways the except clauses tell    *)
(* apart; the operator deletes the unclassified entries.                   *)
(***************************************************************************)
StartFaults ==
    {NoFault, FaultOf("start_ssl", "-", "-"), FaultOf("start_conn", "-", "-")}
    \cup {FaultOf("start_req", e, "-") :
             e \in {"quota", "unavail", "other", "tls", "socket"}}

NextStart ==
    \/ Invoke(StartFaults)
    \/ DeleteEntries("unclassified")
    \/ \E k \in Slots : Fulfil(k)
    \/ \E k \in Slots : Dies(k)
    \/ \E k \in Slots : Forget(k)

SpecStart == Init /\ [][NextStart]_vars


(***************************************************************************)
(* Outages: the provider fails the connect, check_spot_requests or find of *)
(* _update_pool_instances in either region, while instances of the pool    *)
(* in both regions die and vanish.  A pool of 6 cores gets a c4.xlarge in  *)
(* us-west-2 and then a c4.large in us-east-1.                             *)
(***************************************************************************)
OutageFaults ==
    {NoFault}
    \cup {FaultOf("upd_conn", "-", r) : r \in Regions}
    \cup {FaultOf("upd_check", "other", r) : r \in Regions}
    \cup {FaultOf("upd_find", "other", r) : r \in Regions}

NextOutage ==
    \/ Invoke(OutageFaults)
    \/ \E k \in Slots : Fulfil(k)
    \/ \E k \in Slots : Dies(k)
    \/ \E k \in Slots : Forget(k)

SpecOutage == InitScale /\ [][NextOutage]_vars


(***************************************************************************)
(* Properties.                                                             *)
(***************************************************************************)
\* A step is a tick's body when it leaves the history of a tick and is not
\* the acquire, which leaves the store and the history alone.
TickStep == tr'.exit \notin {"none", "busy"} /\ ~(UNCHANGED <<store, tr>>)

\* The cores of the stored instances that are requested, pending or running.
CountedCores(insts) ==
    SumSize(SelectSeq(insts, LAMBDA x :
        x.status \in {INSTANCE_STATE["requested"], INSTANCE_STATE["pending"],
                      INSTANCE_STATE["running"]}))

RECURSIVE MaxCores(_)
MaxCores(types) ==
    IF types = <<>> THEN 0
    ELSE Max(CORES_PER_INSTANCE[Head(types)], MaxCores(Tail(types)))

GoneInStore(insts) ==
    \E i \in 1..Len(insts) :
        Mask(insts[i].status) \in {INSTANCE_STATE["shutting-down"],
                                   INSTANCE_STATE["terminated"]}

\* C1: at most one worker is inside the body of a tick for the pool at any
\* time; a worker that invokes the tick while the lock is held stays out,
\* and its invocation leaves the store as it is.
C1_OneTickAtATime ==
    [][ /\ Cardinality({w \in Workers : pc'[w] = "locked"}) <= 1
        /\ \A w \in Workers :
              (lock # 0 /\ pc[w] = "idle") => pc'[w] = "idle"
        /\ (tr'.exit = "busy" => UNCHANGED store) ]_vars

C1_Witness ==
    /\ tr.exit = "busy"
    /\ \E w \in Workers : pc[w] = "locked"

\* C2: whenever no worker is inside the body the lock is free, whichever
\* way the last tick ended (frozen, config error, disabled, done, raised):
\* the lock is only ever held by a worker that is inside.
C2_LockReleased ==
    /\ lock # 0 => pc[lock] = "locked"
    /\ (\A w \in Workers : pc[w] = "idle") => lock = 0

C2_Witness ==
    /\ tr.exit = "raised"
    /\ lock = 0
    /\ \A w \in Workers : pc[w] = "idle"

\* C3: a tick that finds a critical status entry when it starts issues no
\* provider mutation: no spot request, no termination.
C3_FrozenNoMutation ==
    [][ (TickStep /\ IsFrozen(entries)) =>
            /\ prov' = prov
            /\ tr'.spot = 0
            /\ tr'.targets = {}
            /\ tr'.calls = {}
            /\ tr'.exit = "frozen" ]_vars

C3_Witness ==
    /\ tr.exit = "frozen"
    /\ tr.pre.frozen
    /\ tr.pre.enabled
    /\ CountedCores(instances) < config.size

\* C4: a tick on a non-frozen pool whose configuration is cyclic or lacks
\* parameters records one critical config-error entry and returns: no
\* provider call, no change of an instance record or of last_cycled; and a
\* tick that finds a config-error entry is a frozen one.
C4_ConfigError ==
    [][ TickStep =>
          /\ (~IsFrozen(entries) /\ config.bad) =>
                /\ entries' = AddEntry(entries, "config-error")
                /\ IsCriticalType("config-error")
                /\ UNCHANGED <<pool, instances, prov, blacklist>>
                /\ tr'.upd = "none"
                /\ tr'.spot = 0
                /\ tr'.calls = {}
                /\ tr'.exit = "config"
          /\ entries["config-error"] > 0 =>
                /\ tr'.exit = "frozen"
                /\ UNCHANGED store ]_vars

C4_Witness ==
    /\ tr.exit = "frozen"
    /\ tr.prev.exit = "config"
    /\ entries["config-error"] = 1
    /\ config.bad

\* C5 as stated: after any tick that completes without a fatal error the
\* counted cores lie in [size - the largest core count of the configured
\* types, size].
C5_Original ==
    tr.exit \in {"frozen", "config", "disabled", "done"} =>
        /\ CountedCores(instances) <= config.size
        /\ CountedCores(instances) >=
               config.size - MaxCores(config.ec2_instance_types)

\* C5: after a tick whose scale-up saved a spot request the counted cores
\* differ from the size by less than the core count of the requested type,
\* and do not exceed the size when that type has no more cores than were
\* missing.
C5_ScaleUpBound ==
    tr.made > 0 =>
        /\ CountedCores(instances) - config.size < CORES_PER_INSTANCE[tr.type]
        /\ config.size - CountedCores(instances) < CORES_PER_INSTANCE[tr.type]
        /\ CORES_PER_INSTANCE[tr.type] <= tr.missing =>
               CountedCores(instances) <= config.size

C5_Witness ==
    /\ tr.made > 0
    /\ CORES_PER_INSTANCE[tr.type] > tr.missing
    /\ CountedCores(instances) > config.size

\* C6 as stated: when _update_pool_instances completes, no instance in the
\* store has the state shutting-down or terminated.
C6_Original == tr.upd = "done" => ~GoneInStore(tr.afterUpd)

\* C6: when the count that follows _update_pool_instances (lines 61-93)
\* has run, no instance in the store has the state shutting-down or
\* terminated.
C6_NoneGoneAfterCount ==
    tr.upd \in {"done", "ret"} => ~GoneInStore(instances)

C6_Witness ==
    /\ tr.upd = "done"
    /\ GoneInStore(tr.afterUpd)
    /\ tr.exit = "done"

\* The second of two ticks with nothing in between, neither of which met
\* a provider error, the first of which completed.
SecondTick ==
    /\ TickStep
    /\ tr.exit \in {"frozen", "config", "disabled", "done"}
    /\ tr.fault = "none" /\ ~tr.refused
    /\ tr'.fault = "none" /\ ~tr'.refused
    /\ ~Due(pool, config)

SecondTickIsNoOp ==
    /\ tr'.spot = 0
    /\ tr'.targets = {}
    /\ instances' = instances
    /\ entries' = entries

\* C7 as stated: the second of two back-to-back ticks on an unchanged pool
\* that is not due for cycling issues no provider mutation and leaves the
\* store as it is.
C7_Original == [][ SecondTick => SecondTickIsNoOp ]_vars

\* C7: the second of two back-to-back ticks on an unchanged pool that is
\* not due for cycling issues no provider mutation and leaves the store as
\* it is, provided the first tick handed no instance to terminate() and
\* its scale-up, if it saved a request, left no cores missing.
C7_SecondTickNoOp ==
    [][ ( /\ SecondTick
          /\ tr.targets = {}
          /\ tr.made > 0 => CountedCores(instances) >= config.size )
        => SecondTickIsNoOp ]_vars

C7_Witness ==
    /\ tr.prev.exit = "done"
    /\ tr.prev.made > 0
    /\ tr.prev.targets = {}
    /\ tr.exit = "done"
    /\ tr.fault = "none"
    /\ tr.spot = 0
    /\ tr.missing = 0

\* A tick of an enabled, non-frozen pool with a good configuration that is
\* due for cycling and gets as far as the test of last_cycled.
CycleTick ==
    /\ tr.pre.enabled /\ tr.pre.due /\ ~tr.pre.frozen /\ ~tr.pre.bad
    /\ tr.upd \in {"done", "ret"}

\* C8 as stated: a cycle tick sets last_cycled to now, terminates the
\* pool's instances by pool tag and does no scale-up or scale-down in that
\* tick.
C8_Original ==
    CycleTick =>
        /\ pool.last_cycled = 0
        /\ tr.terminate = "byPool"
        /\ tr.spot = 0
        /\ tr.selected = <<>>

\* C8: a cycle tick sets last_cycled to now and terminates the pool's
\* instances by pool tag: unless the provider fails, none of the pool's
\* instances is left in another state than shutting-down or terminated.
\* It does not return then: when the count found cores missing it goes
\* on to _start_pool_instances in the same tick, and it scales up or down
\* only when cores are missing or in excess.
C8_CycleTick ==
    CycleTick =>
        /\ pool.last_cycled = 0
        /\ tr.terminate = "byPool"
        /\ tr.fault = "none" =>
              \A k \in Slots :
                  prov[k].kind = "inst" =>
                      prov[k].code \in {INSTANCE_STATE["shutting-down"],
                                        INSTANCE_STATE["terminated"]}
        /\ tr.missing > 0 => (tr.spot > 0 \/ tr.exit = "raised")
        /\ tr.spot > 0 => tr.missing > 0
        /\ tr.selected # <<>> => tr.missing < 0

C8_Witness ==
    /\ CycleTick
    /\ tr.targets # {}
    /\ tr.spot > 0
    /\ tr.made > 0

\* C9: a tick of a disabled, non-frozen pool terminates by pool tag
\* exactly when it has a counted instance, issues no spot request and does
\* not change last_cycled.
C9_DisabledTick ==
    (/\ ~tr.pre.enabled /\ ~tr.pre.frozen /\ ~tr.pre.bad
     /\ tr.upd \in {"done", "ret"}) =>
        /\ tr.exit = "disabled"
        /\ tr.spot = 0
        /\ tr.selected = <<>>
        /\ pool.last_cycled = tr.pre.last_cycled
        /\ (instances # <<>>) <=> (tr.terminate = "byPool")

C9_Witness ==
    /\ tr.exit = "disabled"
    /\ tr.pre.due
    /\ tr.missing > 0
    /\ tr.targets # {}

\* C10: a pool that stays disabled and non-frozen is eventually drained:
\* the store holds no instance of it any more.
C10_Drained == ~pool.isEnabled ~> (instances = <<>>)

C10_Witness ==
    /\ ~pool.isEnabled
    /\ instances = <<>>
    /\ tr.exit = "disabled"
    /\ tr.afterUpd # <<>>

\* C11: when a tick goes to scale up and the selector finds no (region,
\* zone, type) that qualifies, the tick asks for no spot request, the pool
\* has a price-too-low entry afterwards, and the tick returns normally.
C11_NoZoneQualifies ==
    tr.zone = "None" =>
        /\ tr.spot = 0
        /\ tr.made = 0
        /\ entries["price-too-low"] >= 1
        /\ tr.exit = "done"


\* C12: a pool that starts with at most one entry of each of the types
\* price-too-low, temporary-failure and max-spot-instance-count-exceeded
\* has at most one entry of each of them after any sequence of ticks and
\* provider failures.
C12_AtMostOneEach ==
    \A t \in {"price-too-low", "temporary-failure",
              "max-spot-instance-count-exceeded"} : entries[t] <= 1


\* C13: when the cores missing are positive but fewer than the cores of
\* every configured instance type, the selector only considers the
\* configured types with the fewest cores, and exactly one instance is
\* requested.
C13_SmallestTypeFallback ==
    LET types == config.ec2_instance_types
    IN  (/\ tr.zone \notin {"-", "None"}
         /\ tr.missing > 0
         /\ \A i \in 1..Len(types) : tr.missing < CORES_PER_INSTANCE[types[i]])
        => /\ CORES_PER_INSTANCE[tr.type] = smallest_size(types)
           /\ \A i \in 1..Len(types) :
                  CORES_PER_INSTANCE[tr.type] <= CORES_PER_INSTANCE[types[i]]
           /\ tr.fault \notin {"start_userdata", "start_ssl", "start_conn"}
                  => tr.spot = 1

\* One core is missing of a pool of c4.large (2) and c4.xlarge (4): one
\* c4.large is requested although a c4.xlarge zone is cheaper per core.
C13_Witness ==
    /\ tr.missing = 1
    /\ Len(config.ec2_instance_types) = 2
    /\ tr.type = "c4.large"
    /\ tr.spot = 1
    /\ tr.made = 1


\* The records a tick's scale-up appended to the store.
NewRecords == SubSeq(instances, Len(instances) - tr.made + 1, Len(instances))

\* C14: when the selector finds a (region, zone, type) and the provider
\* accepts, the tick asks for max(1, missing div CORES_PER_INSTANCE[type])
\* instances and saves one record for every request id the provider
\* returns: status requested, the chosen region and zone, the request id
\* as ec2_instance_id and size CORES_PER_INSTANCE[type].
C14_RequestsSaved ==
    tr.made > 0 =>
        /\ tr.spot = Max(1, tr.missing \div CORES_PER_INSTANCE[tr.type])
        /\ tr.made = tr.spot
        /\ Len(instances) = Len(tr.afterUpd) + tr.made
        /\ \A j \in 1..tr.made :
             LET x == NewRecords[j]
             IN  /\ x.status = INSTANCE_STATE["requested"]
                 /\ x.region = tr.region
                 /\ x.zone = tr.zone
                 /\ x.size = CORES_PER_INSTANCE[tr.type]
                 /\ x.id = ReqId(SlotOf(x.id))
                 /\ prov[SlotOf(x.id)].kind = "req"
                 /\ prov[SlotOf(x.id)].type = tr.type
                 /\ prov[SlotOf(x.id)].zone = tr.zone
        /\ \A i, j \in 1..tr.made : i # j => NewRecords[i].id # NewRecords[j].id

\* 4 cores are missing of a pool of c4.large: two requests are saved.
C14_Witness ==
    /\ tr.missing = 4
    /\ tr.type = "c4.large"
    /\ tr.spot = 2
    /\ tr.made = 2
    /\ Len(instances) = 2


\* C15: in a tick that finds more cores than config.size, the instances
\* selected for termination have sizes that sum to exactly the excess, and
\* the selected instances are terminated on the provider.
C15_ExcessTerminated ==
    (tr.missing < 0 /\ tr.exit # "disabled") =>
        /\ SumSize(tr.selected) = -tr.missing
        /\ tr.selected # <<>> =>
              /\ tr.terminate = "byInstances"
              /\ tr.exit = "done"
              /\ \A i \in 1..Len(tr.selected) :
                    tr.selected[i].id[1] = "i" => SlotOf(tr.selected[i].id) \in tr.targets


\* The cores of the instances before row i that scale-down selected.
SelectedBefore(i) ==
    SumSize(SelectSeq(SubSeq(instances, 1, i - 1),
                      LAMBDA x : \E j \in 1..Len(tr.selected) : tr.selected[j].id = x.id))

\* C16: scale-down walks the instances in ascending order of created and
\* skips every instance whose removal would leave the counted cores below
\* config.size; the cores it selects never exceed the excess, and it stops
\* as soon as the excess is zero.  An instance is selected exactly when
\* excess is left at its turn and its size is within what is left.
C16_ScaleDownNeverShort ==
    (tr.missing < 0 /\ tr.exit # "disabled") =>
        /\ SumSize(tr.selected) <= -tr.missing
        /\ tr.pre.size - tr.missing - SumSize(tr.selected) >= tr.pre.size
        /\ \A i \in 1..Len(instances) :
             LET left == -tr.missing - SelectedBefore(i)
             IN  (\E j \in 1..Len(tr.selected) : tr.selected[j] = instances[i])
                   <=> (left > 0 /\ instances[i].size <= left)
        /\ SumSize(tr.selected) = SelectedBefore(Len(instances) + 1)

\* A pool with instances of 4 and of 2 cores and 3 cores too many: the
\* older one of 4 is skipped, the one of 2 selected, one core stays over.
C16_Witness ==
    /\ tr.missing = -3
    /\ Len(instances) = 2
    /\ instances[1].size = 4
    /\ Len(tr.selected) = 1
    /\ tr.selected[1] = instances[2]


\* The requests a tick found fulfilled.
FulfilledInTick == {tr.log[n].k : n \in {m \in 1..Len(tr.log) : tr.log[m].op = "save"}}

\* C17: when a spot request is found fulfilled, its record gets the
\* instance id in place of the request id, a hostname and the provider's
\* state code & 0xFF and is saved; the tag SpotManager-Updatable is applied
\* only after that save; and the record is not reaped in that tick.
C17_Fulfilled ==
    \A k \in FulfilledInTick :
        /\ \E n, m \in 1..Len(tr.log) :
              /\ tr.log[n] = [op |-> "save", k |-> k]
              /\ tr.log[m] = [op |-> "tag", k |-> k]
              /\ n < m
        /\ \A m \in 1..Len(tr.log) :
              tr.log[m] = [op |-> "tag", k |-> k] =>
                  \E n \in 1..(m - 1) : tr.log[n] = [op |-> "save", k |-> k]
        /\ prov[k].kind = "inst" /\ prov[k].upd
        /\ \E i \in 1..Len(tr.afterUpd) :
              /\ tr.afterUpd[i].id = InsId(k)
              /\ tr.afterUpd[i].hostname
              /\ tr.afterUpd[i].status = 272 % 256
        /\ \A i \in 1..Len(tr.afterUpd) : tr.afterUpd[i].id # ReqId(k)
        /\ \E i \in 1..Len(instances) :
              instances[i].id = InsId(k) /\ instances[i].hostname
        /\ \A i \in 1..Len(instances) : instances[i].id # ReqId(k)

\* A tick found request 1 fulfilled: its record is a running instance.
C17_Witness ==
    /\ 1 \in FulfilledInTick
    /\ tr.upd = "done"
    /\ \E i \in 1..Len(instances) :
          instances[i].id = InsId(1) /\ instances[i].status = INSTANCE_STATE["running"]


C19_CriticalKept ==
    [][/\ TickStep =>
            /\ tr'.deleted \subseteq {"price-too-low", "temporary-failure",
                                      "max-spot-instance-count-exceeded"}
            /\ \A t \in POOL_STATUS_ENTRY_TYPE :
                  IsCriticalType(t) => entries'[t] >= entries[t]
            /\ IsFrozen(entries) => IsFrozen(entries')
       /\ (IsFrozen(entries) /\ ~IsFrozen(entries')) => tr' = NoTick]_vars

\* A tick found one request failed and one fulfilled: it deleted the stale
\* warnings and left the unclassified entry, freezing the pool.
C19_Witness ==
    /\ tr.exit \notin {"none", "busy", "frozen"}
    /\ {"max-spot-instance-count-exceeded", "temporary-failure"} \subseteq tr.deleted
    /\ \E n \in 1..Len(tr.log) : tr.log[n].op = "entry"
    /\ entries["unclassified"] > 0
    /\ IsFrozen(entries)


\* The spot requests of the store that the provider has cancelled or closed.
Unfulfilled(insts, pv) ==
    {i \in 1..Len(insts) :
        /\ insts[i].status = INSTANCE_STATE["requested"]
        /\ pv[SlotOf(insts[i].id)].kind = "req"
        /\ pv[SlotOf(insts[i].id)].rs \in {"cancelled", "closed"}}

\* C20: when check_spot_requests reports the spot request of a requested
\* instance as cancelled or closed, the blacklist key of (the instance's
\* zone, the request's instance type) is written with an expiry of 12
\* hours and the record is deleted; and the selector never answers a
\* (zone, instance type) whose key is present.
C20_Blacklist ==
    /\ [][(TickStep /\ tr'.upd = "done") =>
            \A i \in Unfulfilled(instances, prov) :
                /\ <<instances[i].zone, prov[SlotOf(instances[i].id)].type>>
                       \in blacklist'
                /\ \A j \in 1..Len(instances') : instances'[j].id # instances[i].id
                /\ \E n \in 1..Len(tr'.log) :
                      /\ tr'.log[n].op = "blacklist"
                      /\ tr'.log[n].k = SlotOf(instances[i].id)
                      /\ tr'.log[n].ex = 12 * 60 * 60]_vars
    /\ [](tr.zone \notin {"-", "None"} => <<tr.zone, tr.type>> \notin blacklist)

\* A tick found a request cancelled or closed, blacklisted its zone and
\* type and requested instances in another zone.
C20_Witness ==
    /\ \E n \in 1..Len(tr.log) : tr.log[n].op = "blacklist"
    /\ blacklist # {}
    /\ tr.upd = "done"
    /\ tr.made > 0
    /\ <<tr.zone, tr.type>> \notin blacklist
    /\ \E b \in blacklist : b[2] = tr.type


\* The spot requests of the store whose request the provider reports as
\* still pending, open or active.
Waiting(insts, pv) ==
    {i \in 1..Len(insts) :
        /\ insts[i].status = INSTANCE_STATE["requested"]
        /\ pv[SlotOf(insts[i].id)].kind = "req"
        /\ pv[SlotOf(insts[i].id)].rs \in {"pending", "open", "active"}}

\* C21: a requested instance whose spot request is still pending or is
\* reported open or active is left in the store as it is by
\* _update_pool_instances: id, status requested and size stay, and the
\* reaper does not delete it although find does not return it.
C21_WaitingRequestKept ==
    [][(TickStep /\ tr'.upd # "none") =>
          \A i \in Waiting(instances, prov) :
              \E j \in 1..Len(tr'.afterUpd) : tr'.afterUpd[j] = instances[i]]_vars

\* A completed update left a request reported open or active in the store.
C21_Witness ==
    /\ tr.upd = "done"
    /\ \E j \in 1..Len(tr.afterUpd) :
          /\ tr.afterUpd[j].status = INSTANCE_STATE["requested"]
          /\ prov[SlotOf(tr.afterUpd[j].id)].kind = "req"
          /\ prov[SlotOf(tr.afterUpd[j].id)].rs \in {"open", "active"}
    /\ \E j \in 1..Len(tr.afterUpd) :
          tr.afterUpd[j].status # INSTANCE_STATE["requested"]


\* The records of the store that are no spot request.
NotRequested(insts) ==
    {i \in 1..Len(insts) : insts[i].status # INSTANCE_STATE["requested"]}

\* find returns instance k for region r: it is the provider's and lies there.
Found(pv, id, r) ==
    /\ id[1] = "i"
    /\ pv[SlotOf(id)].kind = "inst"
    /\ pv[SlotOf(id)].region = r

\* C22: in a tick whose _update_pool_instances goes through every region
\* without a provider error, every stored instance that was not requested
\* when the update started and that find did not return is deleted from
\* the store, and every such instance that find returned as updatable is
\* kept with its status_code set to the provider's state code & 0xFF.
C22_StoreReflectsProvider ==
    [][(TickStep /\ tr'.upd = "done") =>
          \A i \in NotRequested(instances) :
              LET x == instances[i]
                  k == SlotOf(x.id)
              IN  /\ ~Found(prov, x.id, x.region) =>
                        \A j \in 1..Len(tr'.afterUpd) : tr'.afterUpd[j].id # x.id
                  /\ (Found(prov, x.id, x.region) /\ prov[k].upd) =>
                        \E j \in 1..Len(tr'.afterUpd) :
                            /\ tr'.afterUpd[j].id = x.id
                            /\ tr'.afterUpd[j].status = prov[k].code % 256]_vars

\* An update reaped an instance the provider no longer has and saved the
\* new state of one that it has.
C22_Witness ==
    /\ tr.upd = "done"
    /\ tr.reaped # {}
    /\ Len(tr.afterUpd) = 1
    /\ tr.afterUpd[1].id \notin tr.reaped
    /\ tr.afterUpd[1].status = INSTANCE_STATE["shutting-down"]


\* The provider has an updatable, live instance that no record names.
Unrecorded(insts, pv) ==
    \E k \in Slots :
        /\ pv[k].kind = "inst" /\ pv[k].upd
        /\ pv[k].code \notin {INSTANCE_STATE["shutting-down"], INSTANCE_STATE["terminated"]}
        /\ \A i \in 1..Len(insts) : insts[i].id # InsId(k)

\* C23: an instance find returns without a positive Updatable tag is
\* skipped by _update_pool_instances.  A record with its id is neither
\* deleted nor overwritten in that tick and the update goes on normally
\* with the other instances, also when the record is one the same call has
\* just found fulfilled.
C23_NotUpdatableSkipped ==
    [][(TickStep /\ tr'.upd # "none" /\ ~Unrecorded(instances, prov)) =>
          /\ \A i \in NotRequested(instances) :
                (Found(prov, instances[i].id, instances[i].region)
                   /\ ~prov[SlotOf(instances[i].id)].upd)
                => \E j \in 1..Len(tr'.afterUpd) : tr'.afterUpd[j] = instances[i]
          /\ \A i \in 1..Len(instances) :
                (instances[i].status = INSTANCE_STATE["requested"]
                   /\ prov[SlotOf(instances[i].id)].kind = "ful")
                => \E j \in 1..Len(tr'.afterUpd) :
                      /\ tr'.afterUpd[j].id = InsId(SlotOf(instances[i].id))
                      /\ tr'.afterUpd[j].status = INSTANCE_STATE["running"]
          /\ tr'.upd = "done"
          /\ tr'.exit # "raised"]_vars


\* find returns, in a region the update goes through, an updatable
\* instance that is not shutting-down or terminated and has no record.
UnrecordedFound(insts, pv) ==
    \E k \in Slots :
        /\ pv[k].kind = "inst" /\ pv[k].upd
        /\ pv[k].code % 256 \notin {INSTANCE_STATE["shutting-down"],
                                    INSTANCE_STATE["terminated"]}
        /\ \A i \in 1..Len(insts) : insts[i].id # InsId(k)
        /\ \E i \in 1..Len(insts) : insts[i].region = pv[k].region

\* C24: when find returns an updatable instance of the pool that is
\* neither shutting-down nor terminated and that has no record, neither
\* loaded nor in the store, the tick aborts: it raises, reaps no instance,
\* asks for no spot request, terminates nothing, and releases the lock.
C24_InconsistencyIsFatal ==
    [][(TickStep /\ tr'.upd # "none" /\ UnrecordedFound(instances, prov)) =>
          /\ tr'.upd = "raise"
          /\ tr'.exit = "raised"
          /\ tr'.reaped = {}
          /\ \A i \in NotRequested(instances) :
                \E j \in 1..Len(instances') : instances'[j].id = instances[i].id
          /\ tr'.spot = 0 /\ tr'.made = 0
          /\ tr'.targets = {} /\ tr'.terminate = "none"
          /\ lock' = 0]_vars

\* A tick met an instance without a record next to one it knows, whose
\* tag is gone, and raised.
C24_Witness ==
    /\ tr.exit = "raised"
    /\ tr.fault = "none"
    /\ tr.log = <<>>
    /\ UnrecordedFound(instances, prov)
    /\ \E i \in 1..Len(instances) :
          instances[i].id[1] = "i" /\ ~prov[SlotOf(instances[i].id)].upd
    /\ lock = 0


\* The (type, zone) pairs the selector's loops visit for a configuration:
\* <<i, j>> is the j-th zone of the cached prices of the i-th type.
Visited(cfg) ==
    {c \in (1..Len(cfg.ec2_instance_types)) \X (1..2) :
        /\ cfg.ec2_instance_types[c[1]] \in DOMAIN PriceData
        /\ c[2] <= Len(PriceData[cfg.ec2_instance_types[c[1]]])}

TypeOf(cfg, c) == cfg.ec2_instance_types[c[1]]
ZoneOf(cfg, c) == PriceData[TypeOf(cfg, c)][c[2]]

Qualifies(cfg, bl, c) ==
    /\ ZoneOf(cfg, c).region \in cfg.ec2_allowed_regions
    /\ <<ZoneOf(cfg, c).zone, TypeOf(cfg, c)>> \notin bl
    /\ ZoneOf(cfg, c).prices[1] \div CORES_PER_INSTANCE[TypeOf(cfg, c)]
           <= cfg.ec2_max_price

MedianOf(cfg, c) == get_price_median(PerCore(ZoneOf(cfg, c).prices, TypeOf(cfg, c)))

SeenBefore(c, d) == c[1] < d[1] \/ (c[1] = d[1] /\ c[2] <= d[2])

Qualifying(cfg, bl) == {c \in Visited(cfg) : Qualifies(cfg, bl, c)}

\* C25: the selector returns a qualifying (region, zone, type), one whose
\* region is allowed, whose (zone, type) is not blacklisted and whose most
\* recent per-core price is within ec2_max_price, of the least per-core
\* median, the first one visited among those of that median; it returns
\* (None, None, None, rejected) exactly when nothing qualifies, and rejected
\* is empty when the cache has prices for none of the configured types.
C25_CheapestQualifying ==
    tr.sel # <<>> =>
        LET b == tr.sel[1]
            Q == Qualifying(config, blacklist)
        IN  /\ (Q = {}) <=> (b.region = "None" /\ b.zone = "None" /\ b.type = "None")
            /\ (b.region = "None" \/ b.zone = "None" \/ b.type = "None") => Q = {}
            /\ Q # {} =>
                 \E c \in Q :
                    /\ b.type = TypeOf(config, c)
                    /\ b.region = ZoneOf(config, c).region
                    /\ b.zone = ZoneOf(config, c).zone
                    /\ \A d \in Q :
                          \/ MedianOf(config, c) < MedianOf(config, d)
                          \/ /\ MedianOf(config, c) = MedianOf(config, d)
                             /\ SeenBefore(c, d)
            /\ Visited(config) = {} => b.rejected = <<>>

\* The selector chose between two qualifying triples of the same least
\* median, and some zone was rejected for its price.
C25_Witness ==
    /\ tr.sel # <<>>
    /\ tr.sel[1].type # "None"
    /\ DOMAIN tr.sel[1].rejected # {}
    /\ \E c, d \in Qualifying(config, blacklist) :
          /\ c # d
          /\ MedianOf(config, c) = MedianOf(config, d)
          /\ \A x \in Qualifying(config, blacklist) :
                MedianOf(config, c) <= MedianOf(config, x)


\* C26: every provider error _terminate_pool_instances meets, at connect or
\* at find/terminate, adds a critical unclassified entry to the pool, and
\* the function returns without raising.
C26_TerminateErrorRecorded ==
    [][(TickStep /\ tr'.termOut = "ret")
         => /\ tr'.exit # "raised"
            /\ entries'["unclassified"] > entries["unclassified"]]_vars


\* C27: an error of the provider during scale-up becomes a status entry by
\* its kind: a quota error a non-critical max-spot-instance-count-exceeded
\* entry, a transient failure (Service Unavailable, or a TLS or socket
\* error) a non-critical temporary-failure entry that leaves the pool
\* unfrozen, any other error a critical unclassified entry.
C27_ScaleUpErrorMapping ==
    [][(TickStep /\ tr'.startErr # "none" /\ ~tr'.refused)
         => CASE tr'.startErr = "quota" ->
                   /\ entries'["max-spot-instance-count-exceeded"] > 0
                   /\ ~IsFrozen(entries')
              [] tr'.startErr \in {"unavail", "tls", "socket", "ssl_connect"} ->
                   /\ entries'["temporary-failure"]
                          = tr'.updEnt["temporary-failure"] + 1
                   /\ ~IsFrozen(entries')
              [] OTHER ->
                   /\ entries'["unclassified"] = tr'.updEnt["unclassified"] + 1
                   /\ IsFrozen(entries')]_vars


\* The stored instances whose status_code is not what the provider reports
\* for them now.
Stale(insts, pv) ==
    {i \in NotRequested(insts) :
        /\ insts[i].id[1] = "i"
        /\ pv[SlotOf(insts[i].id)].kind = "inst"
        /\ pv[SlotOf(insts[i].id)].upd
        /\ Mask(pv[SlotOf(insts[i].id)].code) # insts[i].status}

\* C28 as stated: a tick on a frozen pool scales neither up nor down, and
\* refreshes the stored instances: an instance the provider reports in a
\* new state has that state as its status_code after the tick (or is
\* deleted as gone).
C28_Original ==
    [][(TickStep /\ IsFrozen(entries)) =>
          /\ tr'.spot = 0
          /\ tr'.targets = {}
          /\ \A i \in Stale(instances, prov) :
                \A j \in 1..Len(instances') :
                    instances'[j].id = instances[i].id
                        => instances'[j].status
                               = Mask(prov[SlotOf(instances[i].id)].code)]_vars

\* C28: a tick on a frozen pool scales neither up nor down and does not
\* refresh the stored instances either: it returns before
\* _update_pool_instances, and every record keeps its status_code,
\* whatever the provider reports.
C28_FrozenNotRefreshed ==
    [][(TickStep /\ IsFrozen(entries)) =>
          /\ tr'.spot = 0
          /\ tr'.targets = {}
          /\ tr'.selected = <<>>
          /\ tr'.upd = "none"
          /\ instances' = instances]_vars

\* A frozen tick has run on a pool with a record whose status_code is not
\* the state the provider reports.
C28_Witness ==
    /\ tr.exit = "frozen"
    /\ tr.pre.frozen
    /\ Stale(instances, prov) # {}


\* C29: while a pool has a critical status entry no reconciliation action
\* is issued for it: a tick that starts with one, and a tick whose
\* _update_pool_instances has recorded one, issues no spot request and no
\* termination from there on.
C29_CriticalStopsTick ==
    [][(TickStep /\ (IsFrozen(entries)
                       \/ (tr'.upd # "none" /\ IsFrozen(tr'.updEnt))))
          => /\ tr'.spot = 0
             /\ tr'.targets = {}
             /\ tr'.calls = {}]_vars


\* The stored instances that the provider no longer has: the reap would
\* delete them.
Absent(insts, pv) ==
    {i \in NotRequested(insts) :
        \/ insts[i].id[1] # "i"
        \/ pv[SlotOf(insts[i].id)].kind # "inst"}

\* C30: when _update_pool_instances meets an error of the provider in any
\* region (connect, check_spot_requests or find) it returns before the
\* reap: it deletes no stored instance for being absent from the provider,
\* and every instance that was not requested when the tick started is in
\* the store when it returns.
C30_OutageReapsNothing ==
    [][(TickStep /\ tr'.upd = "ret") =>
          /\ tr'.reaped = {}
          /\ \A i \in NotRequested(instances) :
                \E j \in 1..Len(tr'.afterUpd) :
                    tr'.afterUpd[j].id = instances[i].id]_vars

\* The update returned on an error with an instance in the store that the
\* provider no longer has, in a pool with instances in both regions.
C30_Witness ==
    /\ tr.upd = "ret"
    /\ Absent(tr.afterUpd, prov) # {}
    /\ {tr.afterUpd[i].region : i \in 1..Len(tr.afterUpd)} = Regions


====
